---- MODULE Spec2Model ----
(***************************************************************************)
(* Model of the ads.txt crawler of mechiru/adstxt                          *)
(* (adstxt/src/crawler/crawler.rs): the chunked scheduler `crawle`, the    *)
(* per-domain resolver `crawle_until_find`, the timeout race               *)
(* `fetch_with_timeout` and the response classifier `fetch`.               *)
(*                                                                         *)
(* Strings (domains, URIs, header values, bodies) are sequences of         *)
(* one-character strings, so that format!, str::contains and starts_with   *)
(* are computed, not assumed.  The token "\\xFF" stands for a byte that is *)
(* neither visible ASCII nor part of any valid UTF-8 sequence.             *)
(***************************************************************************)
EXTENDS Integers, Sequences, FiniteSets, TLC

\* ------------------------------------------------------------------ bounds
MaxDomains == 3
MaxChunk == 2
MaxLen == 4
MaxLines == 3

\* ----------------------------------------------------------------- strings
BadByte == "\\xFF"

HttpPrefix == <<"h", "t", "t", "p", ":", "/", "/">>
HttpsPrefix == <<"h", "t", "t", "p", "s", ":", "/", "/">>
AdsTxtSuffix == <<"/", "a", "d", "s", ".", "t", "x", "t">>
AdsTxtName == <<"a", "d", "s", ".", "t", "x", "t">>
TextPlain == <<"t", "e", "x", "t", "/", "p", "l", "a", "i", "n">>
TextHtml == <<"t", "e", "x", "t", "/", "h", "t", "m", "l">>

\* str::contains(pat): pat occurs in s as a contiguous substring
Contains(s, pat) ==
    \E i \in 0..(Len(s) - Len(pat)) : SubSeq(s, i + 1, i + Len(pat)) = pat

\* <[u8]>::starts_with(prefix)
StartsWith(s, prefix) ==
    /\ Len(prefix) <= Len(s)
    /\ SubSeq(s, 1, Len(prefix)) = prefix

\* format!("http://{}/ads.txt", domain)
HttpUri(domain) == HttpPrefix \o domain \o AdsTxtSuffix

\* the https uri built with the http scheme again
HttpsUri_http(domain) == HttpPrefix \o domain \o AdsTxtSuffix

\* format!("https://{}/ads.txt", domain)
HttpsUri(domain) == HttpsPrefix \o domain \o AdsTxtSuffix

\* HeaderValue::to_str succeeds only on visible ASCII
ToStrOk(v) == \A i \in 1..Len(v) : v[i] # BadByte

\* String::from_utf8 succeeds only on well-formed UTF-8
Utf8Ok(bytes) == \A i \in 1..Len(bytes) : bytes[i] # BadByte

\* Request::builder().uri(uri) rejects a uri with a space in it
UriOk(uri) == \A i \in 1..Len(uri) : uri[i] # " "

\* --------------------------------------------------- Response and Result
\* enum Response { NotFound, Found { location }, Success { data } }
NotFound == [kind |-> "NotFound", data |-> <<>>]
Found(location) == [kind |-> "Found", data |-> location]
Success(data) == [kind |-> "Success", data |-> data]

\* crawler::Result<T>: Ok(v) or Err(e), e one of crawler::Error's variants
Ok(v) == [ok |-> TRUE, kind |-> v.kind, data |-> v.data]
Err(e) == [ok |-> FALSE, kind |-> e, data |-> <<>>]

\* Option<String>
None == [kind |-> "None", data |-> <<>>]
Some(txt) == [kind |-> "Some", data |-> txt]

\* what the server at a uri does with one GET: the transport's fate, the
\* status line, the Location and Content-Type headers (a header absent is
\* the empty sequence of values, HeaderMap::get takes the first) and the body
Resp(transport, status, location, ctype, body) ==
    [transport |-> transport, status |-> status, location |-> location,
     ctype |-> ctype, body |-> body]

\* a success test that takes the 3xx codes too
is_success_or_3xx(status) == status >= 200 /\ status < 400

\* StatusCode::is_success
is_success(status) == status >= 200 /\ status < 300

\* fetch: one GET, classified
fetch(uri, r) ==
    IF ~UriOk(uri) THEN Err("Request")
    ELSE IF r.transport = "connect_error" THEN Ok(NotFound)
    ELSE IF r.transport = "error" THEN Err("Crawle")
    ELSE IF r.status \in {301, 302, 307, 308}
    THEN IF r.location # <<>>
         THEN IF ToStrOk(r.location[1])
              THEN Ok(Found(r.location[1]))
              ELSE Err("HeaderEncoding")
         ELSE Ok(NotFound)
    ELSE IF is_success(r.status)
    THEN IF r.ctype # <<>> /\ ~StartsWith(r.ctype[1], TextPlain)
         THEN Ok(NotFound)
         ELSE IF r.transport = "body_error" THEN Err("Crawle")
         ELSE IF ~Utf8Ok(r.body) THEN Err("BodyEncoding")
         ELSE Ok(Success(r.body))
    ELSE Ok(NotFound)

\* the race with the deadline reported as an error
fetch_with_timeout_elapsed(first, uri, r) ==
    IF first = "delay" THEN Err("Elapsed") ELSE fetch(uri, r)

\* fetch_with_timeout: tokio::select! over the delay and the fetch of uri,
\* which the server answers with r; `first` names the branch that completes
\* first
fetch_with_timeout(first, uri, r) ==
    IF first = "delay" THEN Ok(NotFound) ELSE fetch(uri, r)

\* crawle_until_find, lines 105-116: what the resolver does with the result v
\* of the first (http) fetch_with_timeout: return ret, or go on to fetch uri
Return(ret) == [done |-> TRUE, ret |-> ret, uri |-> <<>>]
Continue(uri) == [done |-> FALSE, ret |-> Err("pending"), uri |-> uri]

\* the resolver rejecting a redirect only when both checks fail
crawle_until_find_first_both(domain, v) ==
    IF ~v.ok THEN Return(v)
    ELSE IF v.kind = "NotFound" THEN Continue(HttpsUri(domain))
    ELSE IF v.kind = "Found"
    THEN IF ~Contains(v.data, domain) /\ ~Contains(v.data, AdsTxtName)
         THEN Return(Ok(None))
         ELSE Continue(v.data)
    ELSE Return(Ok(Some(v.data)))

\* the resolver with the Success arm falling through to the https attempt
crawle_until_find_first_fallthrough(domain, v) ==
    IF ~v.ok THEN Return(v)
    ELSE IF v.kind = "Found"
    THEN IF ~Contains(v.data, domain) \/ ~Contains(v.data, AdsTxtName)
         THEN Return(Ok(None))
         ELSE Continue(v.data)
    ELSE Continue(HttpsUri(domain))

\* the resolver trying https after a valid redirect, not the location
crawle_until_find_first_https(domain, v) ==
    IF ~v.ok THEN Return(v)
    ELSE IF v.kind = "NotFound" THEN Continue(HttpsUri(domain))
    ELSE IF v.kind = "Found"
    THEN IF ~Contains(v.data, domain) \/ ~Contains(v.data, AdsTxtName)
         THEN Return(Ok(None))
         ELSE Continue(HttpsUri(domain))
    ELSE Return(Ok(Some(v.data)))

\* the resolver going on to the https attempt after an error
crawle_until_find_first_retry(domain, v) ==
    IF ~v.ok THEN Continue(HttpsUri(domain))
    ELSE IF v.kind = "NotFound" THEN Continue(HttpsUri(domain))
    ELSE IF v.kind = "Found"
    THEN IF ~Contains(v.data, domain) \/ ~Contains(v.data, AdsTxtName)
         THEN Return(Ok(None))
         ELSE Continue(v.data)
    ELSE Return(Ok(Some(v.data)))

crawle_until_find_first(domain, v) ==
    IF ~v.ok THEN Return(v)
    ELSE IF v.kind = "NotFound" THEN Continue(HttpsUri(domain))
    ELSE IF v.kind = "Found"
    THEN IF ~Contains(v.data, domain) \/ ~Contains(v.data, AdsTxtName)
         THEN Return(Ok(None))
         ELSE Continue(v.data)
    ELSE Return(Ok(Some(v.data)))

\* the second stage chasing a further redirect
crawle_until_find_second_chase(v) ==
    IF ~v.ok THEN Return(v)
    ELSE IF v.kind = "NotFound" THEN Return(Ok(None))
    ELSE IF v.kind = "Found" THEN Continue(v.data)
    ELSE Return(Ok(Some(v.data)))

\* crawle_until_find, lines 118-121: the result v of the second fetch decides
crawle_until_find_second(v) ==
    IF ~v.ok THEN Return(v)
    ELSE IF v.kind \in {"NotFound", "Found"} THEN Return(Ok(None))
    ELSE Return(Ok(Some(v.data)))

\* chunks that leave out a last chunk of fewer than k elements
chunks_exact(s, k) ==
    [c \in 1..(Len(s) \div k) |-> SubSeq(s, (c - 1) * k + 1, c * k)]

\* slice::chunks(k): consecutive chunks of k elements, the last may be shorter
chunks(s, k) ==
    [c \in 1..((Len(s) + k - 1) \div k) |->
        SubSeq(s, (c - 1) * k + 1, IF c * k < Len(s) THEN c * k ELSE Len(s))]

\* fs::write(path, txt) = File::create (truncates) then write_all.  io = -1:
\* create fails, the directory is unchanged; 0 <= io < Len(txt): write_all
\* fails after io bytes; io = Len(txt): success.  A file absent is <<>>, a
\* file present is <<content>>.
fs_write_append(fs, name, txt, io) ==
    IF io < 0 THEN fs
    ELSE [fs EXCEPT ![name] = IF @ = <<>> THEN <<SubSeq(txt, 1, io)>>
                                           ELSE <<@[1] \o SubSeq(txt, 1, io)>>]

fs_write(fs, name, txt, io) ==
    IF io < 0 THEN fs ELSE [fs EXCEPT ![name] = <<SubSeq(txt, 1, io)>>]

fs_write_ok(txt, io) == io = Len(txt)

\* ------------------------------------------------------- the environment
DomainA == <<"a">>
DomainB == <<"b">>
DomainNames == {DomainA, DomainB}

\* the domain lists of a batch: the lists of at most MaxDomains names that
\* begin b, b, a, b, b, a ... or a, b, a, b ..., so that a name can occur
\* twice in a chunk, twice in a batch, or once
DomainLists ==
    {[i \in 1..n |-> IF i % 3 = 0 THEN DomainA ELSE DomainB] : n \in 0..MaxDomains}
        \cup {[i \in 1..n |-> IF i % 2 = 1 THEN DomainA ELSE DomainB] :
                 n \in 0..MaxDomains}

Body1 == <<"x">>

LocA == HttpUri(DomainA)
LocB == HttpsUri(DomainB)
LocX == HttpsPrefix \o DomainB \o <<"/">>
LocBad == <<"/", BadByte>>

\* the behaviours of the remote servers the batch is run against
ServerResponses ==
    { Resp("connect_error", 0, <<>>, <<>>, <<>>),
      Resp("error", 0, <<>>, <<>>, <<>>),
      Resp("ok", 404, <<>>, <<TextPlain>>, Body1),
      Resp("ok", 200, <<>>, <<TextHtml>>, Body1),
      Resp("ok", 200, <<>>, <<TextPlain>>, Body1),
      Resp("ok", 200, <<>>, <<>>, <<BadByte>>),
      Resp("body_error", 200, <<>>, <<>>, Body1),
      Resp("ok", 302, <<>>, <<>>, <<>>),
      Resp("ok", 307, <<LocBad>>, <<>>, <<>>),
      Resp("ok", 301, <<LocA>>, <<>>, <<>>),
      Resp("ok", 301, <<LocB>>, <<>>, <<>>),
      Resp("ok", 301, <<LocX>>, <<>>, <<>>) }

\* ------------------------------------------------------------- the state
VARIABLES
    domains,      \* crawle's argument: the Vec<String> of domains
    chunk_size,   \* config.chunk_size
    pc,           \* crawle: "spawn", "join", "done" (Ok(())) or "error" (Err(Task))
    ci,           \* index of the current chunk of domains.chunks(chunk_size)
    si,           \* position in the current chunk of the next domain to spawn
    handles,      \* the JoinHandles pushed so far in this chunk (entry indices)
    joining,      \* the handles of `chunk` not yet awaited
    counter,      \* the processed counter
    task,         \* per entry of domains: the spawned task
    inflight,     \* the fetch futures alive: [task, n, uri], the n-th of its task
    files,        \* the output directory: file name -> <<>> or <<content>>
    launched,     \* per entry: how many tasks tokio::spawn started for it
    produced,     \* per entry: how many resolver results its tasks produced
    probe         \* the last direct call of a function: [op, in, out]

vars == <<domains, chunk_size, pc, ci, si, handles, joining, counter, task,
          inflight, files, launched, produced, probe>>

\* the variables of crawle
crawler_vars == <<domains, chunk_size, pc, ci, si, handles, joining, counter,
                  task, inflight, launched, produced>>

\* no function has been called directly
NoProbe == [op |-> "none", in |-> <<>>, out |-> <<>>]

Entries == 1..Len(domains)

\* the entries of domains in order, as chunked by the outer loop
EntrySeq == [i \in Entries |-> i]

ChunkList == chunks(EntrySeq, chunk_size)

\* a task's record: its phase, the uris it has requested, the results its
\* fetch_with_timeout calls returned, the resolver's return value, what its
\* fs::write did ("none": not called) and how many log::error! lines it wrote
IdleTask == [phase |-> "idle", reqs |-> <<>>, outs |-> <<>>,
             ret |-> Err("pending"), write |-> "none", log |-> 0]
SpawnedTask == [IdleTask EXCEPT !.phase = "spawned"]
PanickedTask == [IdleTask EXCEPT !.phase = "panicked"]
JoinedTask == [IdleTask EXCEPT !.phase = "joined"]

\* the record of a task whose handle has been awaited: the output of a task
\* that ran to its end is consumed with the handle
Joined(t) == IF t.phase = "done" THEN JoinedTask ELSE t

Running == {"spawned", "fetch"}
Completed == {"done", "panicked", "joined"}

Init ==
    /\ domains \in DomainLists
    /\ chunk_size \in 1..MaxChunk
    /\ pc = IF ChunkList = <<>> THEN "done" ELSE "spawn"
    /\ ci = 1
    /\ si = 1
    /\ handles = <<>>
    /\ joining = <<>>
    /\ counter = 0
    /\ task = [i \in Entries |-> IdleTask]
    /\ inflight = {}
    /\ files = [n \in DomainNames |-> <<>>]
    /\ launched = [i \in Entries |-> 0]
    /\ produced = [i \in Entries |-> 0]
    /\ probe = NoProbe

\* ------------------------------------------------------------ the tasks
\* the fetch future task i is waiting on
FetchOf(i) == CHOOSE f \in inflight : f.task = i

\* the losing future kept alive instead of dropped
Drop_leak(i) == inflight

\* the fetch futures left once those owned by task i are dropped
Drop(i) == {f \in inflight : f.task # i}

\* the io results fs::write can have for txt
IoOutcomes(txt) == -1..Len(txt)

\* first poll of the spawned task: crawle_until_find builds the http uri and
\* awaits fetch_with_timeout on it
TaskStart(i) ==
    /\ task[i].phase = "spawned"
    /\ LET uri == HttpUri(domains[i]) IN
         /\ inflight' = inflight \cup {[task |-> i, n |-> 1, uri |-> uri]}
         /\ task' = [task EXCEPT ![i] = [@ EXCEPT !.phase = "fetch",
                                                   !.reqs = <<uri>>]]
    /\ UNCHANGED <<probe, domains, chunk_size, pc, ci, si, handles, joining, counter,
                   files, launched, produced>>

\* the match of the task body (lines 46-61): the Ok(Some(txt)) arm stores
ShouldStore_any_ok(ret) == ret.ok

ShouldStore(ret) == ret.ok /\ ret.kind = "Some"

\* the log::error! lines of the task body: one for a failed fs::write (line
\* 50), one for an Err other than BodyEncoding and HeaderEncoding (line 60)
ErrorLines_every_err(ret, write) ==
    IF write = "err" \/ ~ret.ok THEN 1 ELSE 0

ErrorLines(ret, write) ==
    IF write = "err" THEN 1
    ELSE IF ~ret.ok /\ ret.kind \notin {"BodyEncoding", "HeaderEncoding"} THEN 1
    ELSE 0

\* what fs::write did for a task that returned ret with io result io
WriteOf(ret, io) ==
    IF ShouldStore(ret)
    THEN IF fs_write_ok(ret.data, io) THEN "ok" ELSE "err"
    ELSE "none"

\* the body of the spawned task after crawle_until_find returned ret: only
\* Ok(Some(txt)) calls fs::write, whose error is logged and dropped
TaskFinish(i, v, ret, io) ==
    /\ task' = [task EXCEPT ![i] =
                  [phase |-> "done", reqs |-> task[i].reqs,
                   outs |-> Append(task[i].outs, v), ret |-> ret,
                   write |-> WriteOf(ret, io),
                   log |-> ErrorLines(ret, WriteOf(ret, io))]]
    /\ files' = IF ShouldStore(ret)
                THEN fs_write(files, domains[i], ret.data, io)
                ELSE files
    /\ inflight' = Drop(i)
    /\ produced' = [produced EXCEPT ![i] = @ + 1]

\* the resolver goes on to its second fetch_with_timeout, on uri
TaskContinue(i, v, uri) ==
    /\ task' = [task EXCEPT ![i] = [@ EXCEPT !.reqs = Append(@, uri),
                                              !.outs = Append(@, v)]]
    /\ inflight' = Drop(i) \cup {[task |-> i, n |-> Len(task[i].reqs) + 1,
                                   uri |-> uri]}
    /\ UNCHANGED <<files, produced>>

\* the select! of task i completes with the branch `first`, r being the
\* server's answer to the fetch; the other branch is dropped, and the task
\* runs on to its next await or to its end
Resume(i, first, r) ==
    /\ task[i].phase = "fetch"
    /\ LET f == FetchOf(i)
           v == fetch_with_timeout(first, f.uri, r)
           step == IF task[i].outs = <<>>
                   THEN crawle_until_find_first(domains[i], v)
                   ELSE crawle_until_find_second(v)
       IN IF step.done
          THEN \E io \in (IF ShouldStore(step.ret)
                          THEN IoOutcomes(step.ret.data) ELSE {0}) :
                  TaskFinish(i, v, step.ret, io)
          ELSE TaskContinue(i, v, step.uri)
    /\ UNCHANGED <<probe, domains, chunk_size, pc, ci, si, handles, joining, counter,
                   launched>>

\* the fetch completes before the delay, the server having answered r
FetchDone(i, r) == Resume(i, "fetch", r)

\* a timer that never fires
Deadline_never(i) == FALSE

\* time::delay_for(dur) completes before the fetch, whatever the server
\* would have answered
Deadline(i) == \E r \in ServerResponses : Resume(i, "delay", r)

\* the task panics while it runs: its JoinHandle will yield a JoinError
TaskPanic(i) ==
    /\ task[i].phase \in Running
    /\ task' = [task EXCEPT ![i] = PanickedTask]
    /\ inflight' = Drop(i)
    /\ UNCHANGED <<probe, domains, chunk_size, pc, ci, si, handles, joining, counter,
                   files, launched, produced>>

\* -------------------------------------------------------- the scheduler
\* an await that does not wait for the task
AwaitReady_none(h) == TRUE

\* an await that is ready as soon as any task of the chunk has ended
AwaitReady_any(h) ==
    \E k \in 1..Len(joining) : task[joining[k]].phase \in {"done", "panicked"}

\* handle.await is ready once the task has run to its end or panicked
AwaitReady(h) == task[h].phase \in {"done", "panicked"}

\* every failed resolver result escalated like a JoinError
JoinError_any(h) == task[h].phase = "panicked" \/ ~task[h].ret.ok

\* handle.await yields Err(JoinError): the task panicked
JoinError(h) == task[h].phase = "panicked"

\* tokio::spawn of the next domain of the current chunk; after the last one
\* the handles are moved into `chunk` (lines 38-67)
Spawn ==
    /\ pc = "spawn"
    /\ LET c == ChunkList[ci]
           id == c[si]
       IN /\ task' = [task EXCEPT ![id] = SpawnedTask]
          /\ launched' = [launched EXCEPT ![id] = @ + 1]
          /\ IF si < Len(c)
             THEN /\ si' = si + 1
                  /\ handles' = Append(handles, id)
                  /\ UNCHANGED <<pc, joining>>
             ELSE /\ si' = 1
                  /\ handles' = <<>>
                  /\ joining' = Append(handles, id)
                  /\ pc' = "join"
    /\ UNCHANGED <<probe, domains, chunk_size, ci, counter, inflight, files, produced>>

\* handle.await? on the next handle of `chunk`, then counter += 1 (lines
\* 68-74); a JoinError makes crawle return Err(Task) and drop the handles left
Join ==
    /\ pc = "join"
    /\ LET h == Head(joining) IN
       /\ AwaitReady(h)
       /\ IF JoinError(h)
          THEN /\ pc' = "error"
               /\ joining' = <<>>
               /\ UNCHANGED <<ci, counter, task>>
          ELSE /\ counter' = counter + 1
               /\ joining' = Tail(joining)
               /\ task' = [task EXCEPT ![h] = Joined(@)]
               /\ IF Tail(joining) # <<>>
                  THEN UNCHANGED <<pc, ci>>
                  ELSE IF ci < Len(ChunkList)
                       THEN pc' = "spawn" /\ ci' = ci + 1
                       ELSE pc' = "done" /\ UNCHANGED ci
    /\ UNCHANGED <<probe, domains, chunk_size, si, handles, inflight, files,
                   launched, produced>>

Next ==
    \/ Spawn
    \/ Join
    \/ \E i \in Entries : TaskStart(i)
    \/ \E i \in Entries : \E r \in ServerResponses : FetchDone(i, r)
    \/ \E i \in Entries : Deadline(i)
    \/ \E i \in Entries : TaskPanic(i)

Spec == Init /\ [][Next]_vars

\* the batches of at most two domains, for the properties of a single task
\* and of a single fetch_with_timeout call
InitPair == Init /\ Len(domains) <= 2

SpecPair == InitPair /\ [][Next]_vars

\* the scheduling the runtime guarantees: the future of crawle is polled
\* whenever it can proceed (Spawn, Join), a spawned task is started, and the
\* timer of a pending select! fires. Nothing is assumed of the servers
\* (FetchDone) and nothing of panics.
Fairness ==
    /\ WF_vars(Spawn)
    /\ WF_vars(Join)
    /\ \A i \in 1..MaxDomains :
          /\ WF_vars(IF i \in Entries THEN TaskStart(i) ELSE FALSE)
          /\ WF_vars(IF i \in Entries THEN Deadline(i) ELSE FALSE)

FairPair == SpecPair /\ Fairness

\* ------------------------------------------------ fetch called directly
\* crawle is not running
NoCrawle ==
    /\ domains = <<>>
    /\ chunk_size = 1
    /\ pc = "done"
    /\ ci = 1
    /\ si = 1
    /\ handles = <<>>
    /\ joining = <<>>
    /\ counter = 0
    /\ task = <<>>
    /\ inflight = {}
    /\ launched = <<>>
    /\ produced = <<>>

\* status codes: 2xx, the four redirects, other 3xx, 4xx and 5xx
Statuses == {200, 204, 300, 301, 302, 303, 304, 307, 308, 404, 500}

\* "text/plain; charset=utf-8" and "text/plainx"
TextPlainCharset ==
    TextPlain \o <<";", " ", "c", "h", "a", "r", "s", "e", "t", "=",
                   "u", "t", "f", "-", "8">>
TextPlainX == TextPlain \o <<"x">>

\* the responses a server may give to the one GET of fetch
FetchResponses ==
    { Resp(t, st, loc, ct, b) :
        t \in {"ok", "body_error", "connect_error", "error"},
        st \in Statuses,
        loc \in {<<>>, <<LocA>>, <<LocBad>>, <<LocBad, LocA>>},
        ct \in {<<>>, <<TextPlain>>, <<TextHtml>>, <<TextPlainCharset>>,
                <<TextPlainX>>},
        b \in {<<>>, Body1, <<BadByte>>} }

InitFetch ==
    /\ NoCrawle
    /\ files = [n \in DomainNames |-> <<>>]
    /\ probe = NoProbe

\* fetch(c, uri) against a server that answers r; fetch keeps no state, so
\* one call stands for every call
CallFetch ==
    /\ probe = NoProbe
    /\ \E d \in DomainNames : \E r \in FetchResponses :
          probe' = [op |-> "fetch", in |-> r, out |-> fetch(HttpUri(d), r)]
    /\ UNCHANGED <<crawler_vars, files>>

FetchSpec == InitFetch /\ [][CallFetch]_vars

\* ------------------------------------------- fs::write called directly
\* file contents
Texts == {<<>>, Body1, <<"y">>, <<"x", "y">>}

\* the output directory before: each file absent or holding some text
InitSink ==
    /\ NoCrawle
    /\ files \in [DomainNames -> {<<>>} \cup {<<t>> : t \in Texts}]
    /\ probe = NoProbe

\* fs::write(out_dir/name, txt) with io result io; probe.in keeps the name,
\* the text and what the file was before, probe.out is Ok(())
Store(name, txt, io) ==
    /\ files' = fs_write(files, name, txt, io)
    /\ probe' = [op |-> "store", in |-> <<name, txt, files[name]>>,
                 out |-> fs_write_ok(txt, io)]
    /\ UNCHANGED crawler_vars

CallStore ==
    \E name \in DomainNames : \E txt \in Texts : \E io \in IoOutcomes(txt) :
       Store(name, txt, io)

SinkSpec == InitSink /\ [][CallStore]_vars

\* ------------------------------------------------- the parser: strings
\* A &str is the sequence of its chars; a char is one byte of UTF-8 unless
\* it is one of the two below, of two bytes and of three
Wide2 == "U+00E9"
Wide3 == "U+65E5"

\* char::len_utf8
Width(c) == IF c = Wide2 THEN 2 ELSE IF c = Wide3 THEN 3 ELSE 1

\* str::len: the length in bytes
RECURSIVE ByteLen(_)
ByteLen(s) == IF s = <<>> THEN 0 ELSE Width(Head(s)) + ByteLen(Tail(s))

\* the byte offset at which the char after the first k chars starts
Off(s, k) == ByteLen(SubSeq(s, 1, k))

\* str::is_char_boundary
is_char_boundary(s, b) == \E k \in 0..Len(s) : Off(s, k) = b

\* the number of chars before byte offset b, a char boundary
CharsBefore(s, b) == CHOOSE k \in 0..Len(s) : Off(s, k) = b

\* a panic of the function called
Panic == [kind |-> "Panic"]

\* s[a..b] by byte offsets: panics unless a <= b and both are char boundaries
ByteSlice(s, a, b) ==
    IF a <= b /\ is_char_boundary(s, a) /\ is_char_boundary(s, b)
    THEN [kind |-> "Str", s |-> SubSeq(s, CharsBefore(s, a) + 1, CharsBefore(s, b))]
    ELSE Panic

\* str::trim: without the leading and the trailing white space
RECURSIVE trim_start(_)
trim_start(s) ==
    IF s # <<>> /\ Head(s) = " " THEN trim_start(Tail(s)) ELSE s

RECURSIVE trim_end(_)
trim_end(s) ==
    IF s # <<>> /\ s[Len(s)] = " " THEN trim_end(SubSeq(s, 1, Len(s) - 1)) ELSE s

trim(s) == trim_end(trim_start(s))

\* the 1-based position of the first char of s in pats at or after position
\* from, 0 when there is none
Find(s, pats, from) ==
    IF \E k \in from..Len(s) : s[k] \in pats
    THEN CHOOSE k \in from..Len(s) :
            s[k] \in pats /\ \A m \in from..(k - 1) : s[m] \notin pats
    ELSE 0

\* str::split_once(pats): around the first char in pats
split_once(s, pats) ==
    LET k == Find(s, pats, 1) IN
    IF k = 0 THEN [kind |-> "None"]
    ELSE [kind |-> "Some", head |-> SubSeq(s, 1, k - 1),
          tail |-> SubSeq(s, k + 1, Len(s))]

\* --------------------------------------- the parser: parse_record_tail
\* Some((extension, comment)), each an Option
SomeTail(extension, comment) ==
    [kind |-> "Some", extension |-> extension, comment |-> comment]

\* parse_record_tail: chars().enumerate() counts chars, and the counts i and
\* j are used as byte offsets into line_tail
parse_record_tail(line_tail) ==
    LET p == Find(line_tail, {";", "#"}, 1)
        i == p - 1
        end == ByteLen(line_tail)
    IN
    IF p = 0 THEN [kind |-> "None"]
    ELSE IF line_tail[p] = ";"
    THEN LET start == i + 1
             q == Find(line_tail, {"#"}, p + 1)
             j == q - 1
         IN IF q # 0
            THEN LET e == ByteSlice(line_tail, start, j)
                     c == ByteSlice(line_tail, j, end)
                 IN IF e.kind = "Panic" \/ c.kind = "Panic" THEN Panic
                    ELSE SomeTail(Some(trim(e.s)), Some(trim(c.s)))
            ELSE LET e == ByteSlice(line_tail, start, end)
                 IN IF e.kind = "Panic" THEN Panic
                    ELSE SomeTail(Some(trim(e.s)), None)
    ELSE LET c == ByteSlice(line_tail, i, end)
         IN IF c.kind = "Panic" THEN Panic
            ELSE SomeTail(None, Some(trim(c.s)))

\* -------------------------------------------- the parser: LineData::parse
Direct == <<"D", "I", "R", "E", "C", "T">>
Reseller == <<"R", "E", "S", "E", "L", "L", "E", "R">>

\* parse_comment
parse_comment(line) ==
    IF line # <<>> /\ Head(line) = "#" THEN Some(line) ELSE None

\* parse_relation
parse_relation(t) ==
    IF t = Direct THEN [kind |-> "Direct", data |-> <<>>]
    ELSE IF t = Reseller THEN [kind |-> "Reseller", data |-> <<>>]
    ELSE [kind |-> "Unknown", data |-> t]

\* struct Record
Record(domain, account_id, relation, authority_id) ==
    [domain |-> domain, account_id |-> account_id, relation |-> relation,
     authority_id |-> authority_id]

\* the last match of parse_record and of parse_variable: the item with the
\* extension and comment of parse_record_tail(tail), both None when it
\* returns None
WithTail(kind, item, tail) ==
    LET t == parse_record_tail(tail) IN
    IF t.kind = "Panic" THEN Panic
    ELSE IF t.kind = "Some"
    THEN [kind |-> kind, item |-> item, extension |-> t.extension,
          comment |-> t.comment]
    ELSE [kind |-> kind, item |-> item, extension |-> None, comment |-> None]

\* the text of tail before its first ';' or '#', trimmed
BeforeTail(tail) ==
    LET x == split_once(tail, {";", "#"}) IN
    IF x.kind = "Some" THEN trim(x.head) ELSE trim(tail)

\* parse_record: None without two ','; three fields when there is no third
\* ',', four when there is
parse_record(line) ==
    LET s1 == split_once(line, {","}) IN
    IF s1.kind = "None" THEN [kind |-> "None"]
    ELSE LET s2 == split_once(s1.tail, {","}) IN
    IF s2.kind = "None" THEN [kind |-> "None"]
    ELSE LET domain == trim(s1.head)
             account_id == trim(s2.head)
             s3 == split_once(s2.tail, {","})
         IN IF s3.kind = "None"
            THEN WithTail("Record",
                          Record(domain, account_id,
                                 parse_relation(BeforeTail(s2.tail)), None),
                          s2.tail)
            ELSE WithTail("Record",
                          Record(domain, account_id,
                                 parse_relation(trim(s3.head)),
                                 Some(BeforeTail(s3.tail))),
                          s3.tail)

\* struct Variable
Variable(name, value) == [name |-> name, value |-> value]

\* parse_variable: None without '='
parse_variable(line) ==
    LET s1 == split_once(line, {"="}) IN
    IF s1.kind = "None" THEN [kind |-> "None"]
    ELSE WithTail("Variable", Variable(trim(s1.head), BeforeTail(s1.tail)),
                  s1.tail)

\* enum LineData
Empty == [kind |-> "Empty"]
Comment(line) == [kind |-> "Comment", text |-> line]
Unknown(line) == [kind |-> "Unknown", text |-> line]

\* LineData::parse; a Record or a Variable is [kind, item, extension, comment]
LineData_parse(x) ==
    LET line == trim(x) IN
    IF line = <<>> THEN Empty
    ELSE IF parse_comment(line).kind = "Some" THEN Comment(line)
    ELSE IF parse_record(line).kind # "None" THEN parse_record(line)
    ELSE IF parse_variable(line).kind # "None" THEN parse_variable(line)
    ELSE Unknown(line)

\* ------------------------------------------------- the parser: AdsTxt
\* str::split(sep)
RECURSIVE split(_, _)
split(s, sep) ==
    LET k == Find(s, {sep}, 1) IN
    IF k = 0 THEN <<s>>
    ELSE <<SubSeq(s, 1, k - 1)>> \o split(SubSeq(s, k + 1, Len(s)), sep)

\* AdsTxt::parse_lines: map LineData::parse over the lines, collect
parse_lines(data) ==
    LET ls == split(data, "\n")
        out == [k \in 1..Len(ls) |-> LineData_parse(ls[k])]
    IN IF \E k \in 1..Len(ls) : out[k].kind = "Panic" THEN Panic
       ELSE [kind |-> "Ok", lines |-> out]

\* struct AdsTxt
AdsTxt(records, variables) ==
    [kind |-> "Ok", records |-> records, variables |-> variables]

\* the fold of AdsTxt::parse over the lines ls from the accumulator acc
RECURSIVE fold(_, _)
fold(ls, acc) ==
    IF ls = <<>> \/ acc.kind = "Panic" THEN acc
    ELSE LET l == LineData_parse(Head(ls)) IN
         fold(Tail(ls),
              IF l.kind = "Panic" THEN Panic
              ELSE IF l.kind = "Record"
              THEN AdsTxt(Append(acc.records, <<l.item, l.extension>>),
                          acc.variables)
              ELSE IF l.kind = "Variable"
              THEN AdsTxt(acc.records,
                          Append(acc.variables, <<l.item, l.extension>>))
              ELSE acc)

\* AdsTxt::parse
parse(data) == fold(split(data, "\n"), AdsTxt(<<>>, <<>>))

\* ------------------------------------ the parser functions called directly
\* the chars of the tails and of the lines tried
TailChars == {";", "#", " ", "x", Wide2, Wide3}
LineChars == {",", "=", "#", ";", " ", "x", Wide2}

\* the strings over chars of at most n chars
Strings(chars, n) == UNION {[1..k -> chars] : k \in 0..n}

\* the lines the inputs of AdsTxt::parse are made of: "", "#x", ",,", ",,;x",
\* "=", "=x;", "x" and "=<U+00E9>#"
SampleLines ==
    { <<>>, <<"#", "x">>, <<",", ",">>, <<",", ",", ";", "x">>, <<"=">>,
      <<"=", "x", ";">>, <<"x">>, <<"=", Wide2, "#">> }

\* lines joined by '\n'
RECURSIVE JoinLines(_)
JoinLines(ls) ==
    IF Len(ls) = 1 THEN ls[1] ELSE ls[1] \o <<"\n">> \o JoinLines(Tail(ls))

InitParser ==
    /\ NoCrawle
    /\ files = [n \in DomainNames |-> <<>>]
    /\ probe = NoProbe

\* the parser keeps no state: one call of each function stands for every call
CallTail ==
    /\ probe = NoProbe
    /\ \E s \in Strings(TailChars, MaxLen) :
          probe' = [op |-> "parse_record_tail", in |-> s,
                    out |-> parse_record_tail(s)]
    /\ UNCHANGED <<crawler_vars, files>>

CallLine ==
    /\ probe = NoProbe
    /\ \E s \in Strings(LineChars, MaxLen) :
          probe' = [op |-> "LineData::parse", in |-> s,
                    out |-> LineData_parse(s)]
    /\ UNCHANGED <<crawler_vars, files>>

CallParse ==
    /\ probe = NoProbe
    /\ \E n \in 1..MaxLines : \E ls \in [1..n -> SampleLines] :
          probe' = [op |-> "AdsTxt::parse", in |-> [lines |-> ls, data |-> JoinLines(ls)],
                    out |-> [lines |-> parse_lines(JoinLines(ls)),
                             adstxt |-> parse(JoinLines(ls))]]
    /\ UNCHANGED <<crawler_vars, files>>

ParserSpec == InitParser /\ [][CallTail \/ CallLine \/ CallParse]_vars

\* ------------------------------------------------------------ the claims
\* the two uris the resolver is to try for entry i
Http(i) ==
    <<"h", "t", "t", "p", ":", "/", "/">> \o domains[i]
        \o <<"/", "a", "d", "s", ".", "t", "x", "t">>
Https(i) ==
    <<"h", "t", "t", "p", "s", ":", "/", "/">> \o domains[i]
        \o <<"/", "a", "d", "s", ".", "t", "x", "t">>

\* the fetch futures task i owns
InflightOf(i) == {f \in inflight : f.task = i}

\* the result of the latest fetch_with_timeout of task i
LastOut(i) == task[i].outs[Len(task[i].outs)]

\* the first fetch_with_timeout of task i has returned Ok(kind ...)
FirstIs(i, kind) ==
    /\ task[i].outs # <<>>
    /\ task[i].outs[1].ok
    /\ task[i].outs[1].kind = kind

\* the redirect location loc fails the resolver's validation for entry i
Foreign(i, loc) ==
    \/ \A k \in 0..(Len(loc) - Len(domains[i])) :
          SubSeq(loc, k + 1, k + Len(domains[i])) # domains[i]
    \/ \A k \in 0..(Len(loc) - 7) :
          SubSeq(loc, k + 1, k + 7) # <<"a", "d", "s", ".", "t", "x", "t">>

\* C1: when the first (http) fetch yields Success{body}, the resolver
\* returns Ok(Some(body)) with that body, having requested http://d/ads.txt
\* and nothing else, and no fetch of the task is left in flight
C1_SuccessReturnsBody ==
    \A i \in Entries :
        FirstIs(i, "Success") =>
            /\ task[i].phase = "done"
            /\ task[i].ret = Ok(Some(task[i].outs[1].data))
            /\ task[i].reqs = <<Http(i)>>
            /\ Len(task[i].outs) = 1
            /\ InflightOf(i) = {}

C1_Witness ==
    \E i \in Entries :
        /\ FirstIs(i, "Success")
        /\ task[i].outs[1].data = Body1
        /\ task[i].phase = "done"

\* C2: when the http fetch yields NotFound, the resolver requests
\* https://d/ads.txt next, once, and nothing else: its requests are exactly
\* http://d/ads.txt then https://d/ads.txt, and while it waits the only
\* fetch in flight is the https one
C2_NotFoundThenHttpsOnce ==
    \A i \in Entries :
        FirstIs(i, "NotFound") =>
            /\ task[i].reqs = <<Http(i), Https(i)>>
            /\ task[i].phase \in {"fetch", "done"}
            /\ task[i].phase = "fetch" =>
                  InflightOf(i) = {[task |-> i, n |-> 2, uri |-> Https(i)]}
            /\ task[i].phase = "done" => InflightOf(i) = {}

C2_Witness ==
    \E i \in Entries :
        /\ FirstIs(i, "NotFound")
        /\ task[i].phase = "done"
        /\ Len(task[i].outs) = 2

\* C3: when the http fetch yields Redirect{location} and location lacks the
\* domain or lacks "ads.txt", the resolver returns Ok(None) at once: the
\* only request made is http://d/ads.txt
C3_ForeignRedirectNotFollowed ==
    \A i \in Entries :
        (FirstIs(i, "Found") /\ Foreign(i, task[i].outs[1].data)) =>
            /\ task[i].phase = "done"
            /\ task[i].ret = Ok(None)
            /\ task[i].reqs = <<Http(i)>>
            /\ Len(task[i].outs) = 1
            /\ InflightOf(i) = {}
            /\ task[i].write = "none"

\* one redirect that names the domain but not ads.txt, and one that names
\* ads.txt but not the domain
C3_Witness ==
    /\ Len(domains) >= 2
    /\ domains[1] = DomainB /\ FirstIs(1, "Found") /\ task[1].outs[1].data = LocX
    /\ domains[2] = DomainB /\ FirstIs(2, "Found") /\ task[2].outs[1].data = LocA
    /\ task[1].phase = "done" /\ task[2].phase = "done"

\* C4: a resolver call makes at most two requests, the second only after
\* the first has returned, with at most one in flight; when both the http
\* and the https attempt yield NotFound it returns Ok(None) after two
C4_AtMostTwoFetches ==
    \A i \in Entries :
        /\ Len(task[i].reqs) <= 2
        /\ Len(task[i].outs) <= Len(task[i].reqs)
        /\ Len(task[i].reqs) <= Len(task[i].outs) + 1
        /\ Cardinality(InflightOf(i)) <= 1
        /\ task[i].phase = "fetch" =>
              /\ Len(task[i].reqs) = Len(task[i].outs) + 1
              /\ InflightOf(i) =
                    {[task |-> i, n |-> Len(task[i].reqs),
                      uri |-> task[i].reqs[Len(task[i].reqs)]]}
        /\ (Len(task[i].outs) = 2 /\ task[i].outs[1] = Ok(NotFound)
                                  /\ task[i].outs[2] = Ok(NotFound)) =>
              /\ task[i].phase = "done"
              /\ task[i].ret = Ok(None)
              /\ task[i].reqs = <<Http(i), Https(i)>>

C4_Witness ==
    \E i \in Entries :
        /\ task[i].phase = "done"
        /\ task[i].outs = <<Ok(NotFound), Ok(NotFound)>>

\* C5: in fetch_with_timeout, when the delay completes first the call
\* returns Ok(NotFound) whatever the server would have answered and the
\* fetch future is dropped; when the fetch completes first the call returns
\* what fetch returns for the server's answer, value or error
C5_TimeoutRace ==
    [][\A i \in Entries :
          (task[i].phase = "fetch" /\ Len(task'[i].outs) = Len(task[i].outs) + 1) =>
            /\ \A r \in ServerResponses :
                  Resume(i, "delay", r) =>
                     /\ LastOut(i)' = Ok(NotFound)
                     /\ FetchOf(i) \notin inflight'
            /\ \A r \in ServerResponses :
                  Resume(i, "fetch", r) =>
                     /\ LastOut(i)' = fetch(FetchOf(i).uri, r)
                     /\ FetchOf(i) \notin inflight']_vars

\* a task whose first race returned the value NotFound and whose second
\* returned the transport's error
C5_Witness ==
    \E i \in Entries :
        task[i].outs = <<Ok(NotFound), Err("Crawle")>>

\* the chunk (from 0) the claim's consecutive chunking puts entry i in
ChunkOf(i) == (i - 1) \div chunk_size

\* C6: hard chunk barrier: no task of a later chunk is launched before
\* every task of each earlier chunk has completed
C6_ChunkBarrier ==
    \A i \in Entries : \A j \in Entries :
        (ChunkOf(i) < ChunkOf(j) /\ task[j].phase # "idle") =>
            task[i].phase \in Completed

\* a task of the second chunk runs, the first chunk having had two tasks
C6_Witness ==
    /\ chunk_size = 2
    /\ Len(domains) >= 3
    /\ task[3].phase = "fetch"

\* C7: at most chunk_size fetches are in flight at once: at most chunk_size
\* tasks are running and each has at most one fetch in flight
C7_AtMostChunkSizeInFlight ==
    /\ Cardinality(inflight) <= chunk_size
    /\ Cardinality({i \in Entries : task[i].phase \in Running}) <= chunk_size
    /\ \A f \in inflight : task[f.task].phase = "fetch"
    /\ \A i \in Entries : Cardinality({f \in inflight : f.task = i}) <= 1

\* the bound is met, one of the fetches being a second attempt
C7_Witness ==
    /\ chunk_size = 2
    /\ Cardinality(inflight) = 2
    /\ \E f \in inflight : f.n = 2

C9_EachDomainOnce ==
    /\ \A i \in Entries : launched[i] <= 1 /\ produced[i] <= launched[i]
    /\ pc = "done" => \A i \in Entries : launched[i] = 1 /\ produced[i] = 1

\* a batch of three with chunks of two (the last chunk smaller) has returned
C9_Witness ==
    /\ pc = "done"
    /\ chunk_size = 2
    /\ Len(domains) = 3

\* C10: crawle returns Err only when a task panicked; it never stops short:
\* while it runs it has a task to launch or a handle to await whose task
\* runs or has ended, and when it returns Ok(()) every entry has been
\* joined; a task whose http and https attempts both failed writes no file
C10_PerDomainFailuresNotFatal ==
    /\ pc = "error" => \E i \in Entries : task[i].phase = "panicked"
    /\ pc = "spawn" => ci <= Len(ChunkList) /\ si <= Len(ChunkList[ci])
    /\ pc = "join" =>
          /\ joining # <<>>
          /\ task[Head(joining)].phase \in Running \cup {"done", "panicked"}
    /\ pc = "done" =>
          /\ counter = Len(domains)
          /\ \A i \in Entries : task[i].phase = "joined"
    /\ \A i \in Entries :
          (/\ task[i].phase = "done"
           /\ Len(task[i].outs) = 2
           /\ task[i].reqs[2] = Https(i)
           /\ ~(task[i].outs[2].ok /\ task[i].outs[2].kind = "Success")) =>
              /\ task[i].write = "none"
              /\ ~(task[i].ret.ok /\ task[i].ret.kind = "Some")

\* the batch b, b, a has returned Ok(()) although a write for b failed half
\* way (the file is left truncated) and a got no file
C10_Witness ==
    /\ pc = "done"
    /\ Len(domains) = 3
    /\ files[DomainB] = <<<<>>>>
    /\ files[DomainA] = <<>>

\* C11: once crawle has returned Err(Task) nothing further happens: no task
\* is launched, no fetch is started and no file is written
C11_FailFastNothingFurther ==
    [][pc = "error" =>
          /\ pc' = "error"
          /\ launched' = launched
          /\ counter' = counter
          /\ inflight' \subseteq inflight
          /\ files' = files]_vars

\* task i runs to its end in this step
Finishes(i) == task[i].phase = "fetch" /\ task'[i].phase = "done"

\* C12: the output directory changes only when a task ends with Ok(Some(body))
\* for the body its last fetch returned: only the file named by its domain
\* changes, and when the write succeeds the file holds exactly that body; a
\* task that ends with Ok(None) or Err changes no file
C12_SinkOnlyOnFound ==
    [][/\ \A d \in DomainNames :
             files'[d] # files[d] =>
                \E i \in Entries :
                   /\ Finishes(i)
                   /\ domains[i] = d
                   /\ task'[i].ret.ok /\ task'[i].ret.kind = "Some"
                   /\ LastOut(i)' = Ok(Success(task'[i].ret.data))
                   /\ task'[i].write # "none"
       /\ \A i \in Entries :
             Finishes(i) =>
                /\ (task'[i].ret.ok /\ task'[i].ret.kind = "Some") =>
                      /\ task'[i].write \in {"ok", "err"}
                      /\ task'[i].write = "ok" =>
                            files'[domains[i]] = <<task'[i].ret.data>>
                      /\ \A d \in DomainNames :
                            d # domains[i] => files'[d] = files[d]
                /\ ~(task'[i].ret.ok /\ task'[i].ret.kind = "Some") =>
                      /\ files' = files
                      /\ task'[i].write = "none"]_vars

\* a found body has been stored for b while a's task ended not-found: the
\* file of a does not exist
C12_Witness ==
    /\ files[DomainB] = <<Body1>>
    /\ files[DomainA] = <<>>
    /\ \E i \in Entries :
          /\ domains[i] = DomainA
          /\ task[i].phase = "done"
          /\ task[i].ret = Ok(None)

\* C13: every select! in flight has its timer armed, every task that runs
\* eventually ends whatever the servers do, and crawle eventually returns
C13_NoDomainStallsTheBatch ==
    /\ [](\A f \in inflight : ENABLED Deadline(f.task))
    /\ \A i \in 1..MaxDomains :
          (IF i \in Entries THEN task[i].phase \in Running ELSE FALSE)
             ~> (IF i \in Entries THEN task[i].phase \in Completed ELSE FALSE)
    /\ <>(pc \in {"done", "error"})

\* crawle has returned Ok after two chunks of one domain each
C13_Witness ==
    /\ pc = "done"
    /\ Len(domains) = 2
    /\ chunk_size = 1
    /\ counter = 2

\* the resolver of task i has failed with a decoding error
DecodingError(i) ==
    /\ task[i].phase = "done"
    /\ ~task[i].ret.ok
    /\ task[i].ret.kind \in {"BodyEncoding", "HeaderEncoding"}

\* C14 as stated: a decoding error of a domain's resolver is logged, is not
\* fatal to the batch and writes no file
C14_DecodingErrorLogged ==
    [][\A i \in Entries :
          (Finishes(i) /\ DecodingError(i)') =>
             /\ task'[i].log >= 1
             /\ task'[i].write = "none"
             /\ files' = files
             /\ ~JoinError(i)']_vars

\* C14, amended: a decoding error of a domain's resolver is swallowed without
\* any log line; it is not fatal to the batch and writes no file. The errors
\* that are logged are the other resolver errors and a failed write.
C14_DecodingErrorSilent ==
    [][\A i \in Entries :
          Finishes(i) =>
             /\ DecodingError(i)' =>
                   /\ task'[i].log = 0
                   /\ task'[i].write = "none"
                   /\ files' = files
                   /\ ~JoinError(i)'
             /\ (~task'[i].ret.ok /\ ~DecodingError(i)') => task'[i].log = 1
             /\ task'[i].write = "err" => task'[i].log = 1]_vars

\* one task has ended on a body that is not UTF-8, another on a Location
\* that is not visible ASCII, and crawle goes on joining
C14_Witness ==
    /\ pc = "join"
    /\ \E i, j \in Entries :
          /\ DecodingError(i) /\ task[i].ret.kind = "BodyEncoding"
          /\ DecodingError(j) /\ task[j].ret.kind = "HeaderEncoding"
          /\ task[i].log = 0 /\ task[j].log = 0

\* fetch has been called and has received a response with its headers
Received == probe.op = "fetch" /\ probe.in.transport \in {"ok", "body_error"}

RedirectStatus == {301, 302, 307, 308}

\* C15 as stated: 301, 302, 307 or 308 gives Redirect{location} when a
\* Location header is present and NotFound when it is absent; every other
\* non-2xx status gives NotFound; only a 2xx status can give Success
C15_ClassifiedByStatus ==
    Received =>
       LET r == probe.in IN
       /\ (r.status \in RedirectStatus /\ r.location # <<>>) =>
             probe.out = Ok(Found(r.location[1]))
       /\ (r.status \in RedirectStatus /\ r.location = <<>>) =>
             probe.out = Ok(NotFound)
       /\ (r.status \notin RedirectStatus /\ (r.status < 200 \/ r.status > 299))
             => probe.out = Ok(NotFound)
       /\ (probe.out.ok /\ probe.out.kind = "Success") =>
             (r.status >= 200 /\ r.status <= 299)

\* C15, amended: a Location that is present gives Redirect{location} only
\* when its value is visible ASCII, and the HeaderEncoding error otherwise
C15_ClassifiedByStatusAndLocation ==
    Received =>
       LET r == probe.in IN
       /\ (r.status \in RedirectStatus /\ r.location # <<>>) =>
             probe.out = IF \A k \in 1..Len(r.location[1]) :
                                r.location[1][k] # BadByte
                         THEN Ok(Found(r.location[1]))
                         ELSE Err("HeaderEncoding")
       /\ (r.status \in RedirectStatus /\ r.location = <<>>) =>
             probe.out = Ok(NotFound)
       /\ (r.status \notin RedirectStatus /\ (r.status < 200 \/ r.status > 299))
             => probe.out = Ok(NotFound)
       /\ (probe.out.ok /\ probe.out.kind = "Success") =>
             (r.status >= 200 /\ r.status <= 299)

\* a 308 whose body could not be read and whose Content-Type is text/html
\* has been classified as a redirect to its Location
C15_Witness ==
    /\ Received
    /\ probe.in.status = 308
    /\ probe.in.transport = "body_error"
    /\ probe.in.ctype = <<TextHtml>>
    /\ probe.out = Ok(Found(LocA))

\* the media type a Content-Type value declares is text/plain: the value is
\* text/plain, possibly followed by parameters
DeclaresTextPlain(v) ==
    /\ Len(v) >= Len(TextPlain)
    /\ SubSeq(v, 1, Len(TextPlain)) = TextPlain
    /\ (Len(v) = Len(TextPlain) \/ v[Len(TextPlain) + 1] \in {";", " "})

\* C16: for a 2xx response fetch returns NotFound exactly when a Content-Type
\* is declared and it is not text/plain; when it is absent or text/plain the
\* body is read and, if it is valid UTF-8, returned as Success{body}
C16_ContentTypeGate ==
    (Received /\ probe.in.status >= 200 /\ probe.in.status <= 299) =>
       LET r == probe.in
           other == r.ctype # <<>> /\ ~DeclaresTextPlain(r.ctype[1])
       IN /\ (probe.out = Ok(NotFound)) <=> other
          /\ (~other /\ r.transport = "ok"
                /\ \A k \in 1..Len(r.body) : r.body[k] # BadByte)
                => probe.out = Ok(Success(r.body))

\* C17: a store that succeeds leaves the file with exactly the stored text
\* whatever it held before and touches no other file, so storing the text
\* the file already holds changes nothing; and an existing file never makes
\* the store fail
C17_SinkIdempotent ==
    /\ [][(probe'.op = "store" /\ probe'.out /\ probe'.in[3] = files[probe'.in[1]])
            => /\ files'[probe'.in[1]] = <<probe'.in[2]>>
               /\ \A n \in DomainNames :
                     n # probe'.in[1] => files'[n] = files[n]
               /\ files[probe'.in[1]] = <<probe'.in[2]>> => files' = files]_vars
    /\ [](\A name \in DomainNames : \A txt \in Texts :
             ENABLED Store(name, txt, Len(txt)))

\* the text "x" has been stored with success over a file that held "x"
\* already, next to a file of the other name that holds "xy"
C17_Witness ==
    /\ probe.op = "store"
    /\ probe.out
    /\ probe.in = <<DomainA, Body1, <<Body1>>>>
    /\ files[DomainA] = <<Body1>>
    /\ files[DomainB] = <<<<"x", "y">>>>

\* what C20 says parse_record_tail returns for the tail s
TailAsStated(s) ==
    LET n == Len(s)
        p == Find(s, {";", "#"}, 1)
        q == Find(s, {"#"}, p + 1)
    IN IF p = 0 THEN [kind |-> "None"]
       ELSE IF s[p] = "#"
       THEN SomeTail(None, Some(trim(SubSeq(s, p, n))))
       ELSE IF q = 0
       THEN SomeTail(Some(trim(SubSeq(s, p + 1, n))), None)
       ELSE SomeTail(Some(trim(SubSeq(s, p + 1, q - 1))),
                     Some(trim(SubSeq(s, q, n))))

\* C20: for every tail parse_record_tail returns None exactly when the tail
\* has neither ';' nor '#'; with a '#' first, no extension and the trimmed
\* text from that '#' on as comment; with a ';' first, the trimmed text
\* between that ';' and the next '#' (or the end) as extension and the
\* trimmed text from that '#' on as comment, if there is one
C20_RecordTail ==
    probe.op = "parse_record_tail" =>
       /\ probe.out.kind = TailAsStated(probe.in).kind
       /\ probe.out = TailAsStated(probe.in)

\* the number of ',' of the line t
Commas(t) == Cardinality({k \in 1..Len(t) : t[k] = ","})

\* C18: LineData::parse trims the line and classifies it by the first rule
\* that applies: empty gives Empty; a leading '#' gives Comment of the
\* trimmed line; two ',' or more give Record; a '=' gives Variable; anything
\* else gives Unknown of the trimmed line
C18_LineClassified ==
    probe.op = "LineData::parse" =>
       LET t == trim(probe.in) IN
       IF t = <<>> THEN probe.out = Empty
       ELSE IF t[1] = "#" THEN probe.out = Comment(t)
       ELSE IF Commas(t) >= 2 THEN probe.out.kind = "Record"
       ELSE IF \E k \in 1..Len(t) : t[k] = "=" THEN probe.out.kind = "Variable"
       ELSE probe.out = Unknown(t)

\* the <<item, extension>> pairs of the lines of kind k among ls, in order
Pairs(ls, k) ==
    LET sel == SelectSeq(ls, LAMBDA l : l.kind = k) IN
    [m \in 1..Len(sel) |-> <<sel[m].item, sel[m].extension>>]

\* C19: parse_lines returns one LineData per line of the input, in order;
\* parse returns as records the Record lines and as variables the Variable
\* lines of parse_lines on the same input, each with its extension, in order
C19_ParseAgreesWithParseLines ==
    probe.op = "AdsTxt::parse" =>
       /\ probe.out.lines.kind = "Ok"
       /\ probe.out.adstxt.kind = "Ok"
       /\ Len(probe.out.lines.lines) = Len(probe.in.lines)
       /\ \A k \in 1..Len(probe.in.lines) :
             probe.out.lines.lines[k] = LineData_parse(probe.in.lines[k])
       /\ probe.out.adstxt.records = Pairs(probe.out.lines.lines, "Record")
       /\ probe.out.adstxt.variables = Pairs(probe.out.lines.lines, "Variable")

\* C21: when the http fetch yields Redirect{location} and location names
\* both the domain and "ads.txt", the second and last request goes to
\* location itself, so the requests are http://d/ads.txt then location and
\* no https fallback is added; when that second fetch yields Redirect or
\* NotFound the resolver returns Ok(None) and nothing is stored
C21_ValidRedirectSingleHop ==
    \A i \in Entries :
        (FirstIs(i, "Found") /\ ~Foreign(i, task[i].outs[1].data)) =>
            LET location == task[i].outs[1].data IN
            /\ task[i].reqs = <<Http(i), location>>
            /\ task[i].phase \in {"fetch", "done"}
            /\ task[i].phase = "fetch" =>
                  /\ Len(task[i].outs) = 1
                  /\ InflightOf(i) = {[task |-> i, n |-> 2, uri |-> location]}
            /\ task[i].phase = "done" =>
                  /\ Len(task[i].outs) = 2
                  /\ InflightOf(i) = {}
                  /\ (task[i].outs[2].ok
                        /\ task[i].outs[2].kind \in {"Found", "NotFound"}) =>
                        /\ task[i].ret = Ok(None)
                        /\ task[i].write = "none"

\* the task of a was redirected to http://a/ads.txt, requested it and was
\* redirected again: it has ended not-found after two requests, none https
C21_Witness ==
    \E i \in Entries :
        /\ domains[i] = DomainA
        /\ task[i].phase = "done"
        /\ task[i].outs[1] = Ok(Found(LocA))
        /\ task[i].outs[2].ok /\ task[i].outs[2].kind = "Found"
        /\ task[i].reqs = <<Http(i), LocA>>
        /\ task[i].ret = Ok(None)

\* C22: when the first (http) fetch ends in an error, the resolver returns
\* that error at once: the only request made is http://d/ads.txt, no fetch
\* is left in flight, the result is the error and no file is written
C22_FirstErrorReturnedAtOnce ==
    \A i \in Entries :
        (task[i].outs # <<>> /\ ~task[i].outs[1].ok) =>
            /\ task[i].phase = "done"
            /\ task[i].ret = task[i].outs[1]
            /\ task[i].reqs = <<Http(i)>>
            /\ Len(task[i].outs) = 1
            /\ InflightOf(i) = {}
            /\ task[i].write = "none"

\* one task has ended on a transport error of its http fetch, another on a
\* Location that is not text, each after its one request
C22_Witness ==
    \E i, j \in Entries :
        /\ task[i].phase = "done" /\ task[i].outs = <<Err("Crawle")>>
        /\ task[j].phase = "done" /\ task[j].outs = <<Err("HeaderEncoding")>>
        /\ task[i].reqs = <<Http(i)>> /\ task[j].reqs = <<Http(j)>>
        /\ files = [n \in DomainNames |-> <<>>]

====
